---------------------------- MODULE Spec2Model ----------------------------
(***************************************************************************)
(* Model of streamlitapp.py: a Streamlit script that builds a prompt from  *)
(* a category and a requirements text, sends it to the Gemini API and      *)
(* keeps the reply in st.session_state.generated_code.                     *)
(*                                                                         *)
(* Streamlit executes main() from top to bottom once per user interaction. *)
(* One action of this model is one such script run: the widget values are  *)
(* those the browser sends with the run, st.button is True only in the run *)
(* triggered by the click, and every run ends with the display block of    *)
(* lines 126-156.  Everything drawn by a run (notices, result, download    *)
(* button) is replaced by what the next run draws.                         *)
(*                                                                         *)
(* Line 140 of the source carries a stray indentation; the model reads it  *)
(* as a statement of the block that starts at line 126.                    *)
(***************************************************************************)
EXTENDS Naturals, Sequences, FiniteSets, TLC

(* ---- bounds of the model ---------------------------------------------- *)
NumTexts == 2   \* distinct non-empty texts the service can return
NumReqs  == 2   \* distinct non-empty requirement texts the user can type
NumErrs  == 1   \* distinct exception messages of a failing call

(* ---- input domains ---------------------------------------------------- *)
ToolTypes == {"ansible", "docker", "terraform"}

\* response.text: any string, the empty string included
Texts == {""} \cup {"T" \o ToString(i) : i \in 1..NumTexts}

\* st.text_area value: "" until the user types something
Requirements == {""} \cup {"req" \o ToString(i) : i \in 1..NumReqs}

\* st.text_input value of the sidebar: "" until the user types a key
ApiKeys == {"", "sidebar-key"}

\* str(e) of the exception raised by generate_content or response.text
Errors == {"E" \o ToString(i) : i \in 1..NumErrs}

\* os.environ.get("GEMINI_API_KEY"): None when the variable is absent
None == "<None>"
EnvValues == {None, "env-key"}

VARIABLES
  GEMINI_API_KEY,  \* the process environment variable (fixed for the process)
  configured,      \* api key last handed to genai.configure (module global)
  api_key,         \* sidebar text_input value
  tool_type,       \* radio value
  requirements,    \* text_area value
  generated_code,  \* st.session_state.generated_code
  notices,         \* st.error / st.warning / st.success drawn by the last run
  display,         \* result block drawn by the last run (lines 126-156)
  calls,           \* model.generate_content invocations made by the last run
  prompt_sent,     \* argument of the generate_content invocation of the last run
  last,            \* history: what the last run was and what it started from
  gen_tool,        \* history: tool_type of the run that stored generated_code
  ok_hist,         \* history: outputs of the (at most two) latest successful calls
  rejected         \* history: kinds of Generate runs that did not succeed so far

vars == <<GEMINI_API_KEY, configured, api_key, tool_type, requirements,
          generated_code, notices, display, calls, prompt_sent, last,
          gen_tool, ok_hist, rejected>>

(* ---- initialize_gemini_api (lines 16-21) ------------------------------- *)
\* The parameter is overwritten by the environment variable on line 17, so
\* the key that reaches genai.configure never depends on the sidebar input.
initialize_gemini_api(key) == GEMINI_API_KEY

(* ---- generate_code: the prompt templates (lines 25-58) ----------------- *)
ansible_prompt(reqs) ==
  "Generate a complete Ansible playbook based on the following requirements:\n        \nRequirements:\n"
  \o reqs \o
  "\n\nPlease provide a well-structured, production-ready Ansible playbook with detailed comments.\nInclude proper error handling, idempotent tasks, and follow best practices.\n"

docker_prompt(reqs) ==
  "Generate a production-ready Dockerfile based on the following requirements:\n        \nRequirements:\n"
  \o reqs \o
  "\n\nPlease include:\n1. Proper base image selection\n2. All necessary installation steps\n3. Best practices for Docker (multi-stage builds if appropriate, minimizing layers, etc.)\n4. Proper environment setup\n5. Detailed comments explaining each step\n"

terraform_prompt(reqs) ==
  "Generate Terraform code (HCL) for the following infrastructure requirements:\n        \nRequirements:\n"
  \o reqs \o
  "\n\nThe code should:\n1. Follow Terraform best practices\n2. Include proper variable declarations\n3. Use modules where appropriate\n4. Include detailed comments\n5. Handle dependencies properly\n"

prompts(reqs) ==
  [ansible   |-> ansible_prompt(reqs),
   docker    |-> docker_prompt(reqs),
   terraform |-> terraform_prompt(reqs)]

\* Variant of PromptFor that always takes the first template of the table.
PromptFor_first(tool, reqs) == prompts(reqs)["ansible"]

\* line 60: the argument of model.generate_content
PromptFor(tool, reqs) == prompts(reqs)[tool]

(* ---- the display block (lines 126-156) --------------------------------- *)
\* The usage hints are kept without their quote and backquote characters.
extensions ==
  [ansible |-> "yml", docker |-> "Dockerfile", terraform |-> "tf"]

file_name(tool) == tool \o "_generated." \o extensions[tool]

info(tool) ==
  CASE tool = "ansible"   -> "To use this Ansible playbook, save it as a .yml file and run it with ansible-playbook filename.yml"
    [] tool = "docker"    -> "To build this Docker image, save as Dockerfile and run docker build -t your-image-name ."
    [] tool = "terraform" -> "To use this Terraform code, save it as main.tf, run terraform init followed by terraform apply"

\* The test of line 126 (truthiness of generated_code) is false exactly for the empty string
Display(code, tool) ==
  IF code # ""
  THEN [shown |-> TRUE, markdown |-> code, data |-> code,
        file_name |-> file_name(tool), info |-> info(tool)]
  ELSE [shown |-> FALSE]

(* ---- notices ----------------------------------------------------------- *)
KeyError     == [kind |-> "error",
                 text |-> "Please enter your Google Gemini API Key in the sidebar."]
ReqWarning   == [kind |-> "warning", text |-> "Please enter your requirements."]
Success      == [kind |-> "success", text |-> "Code generated successfully!"]
CallError(e) == [kind |-> "error", text |-> "Error generating code: " \o e]

(* ---- history ----------------------------------------------------------- *)
Last(action, path, text) ==
  [action |-> action, path |-> path, text |-> text, before |-> generated_code]

Push(h, t) == IF Len(h) < 2 THEN Append(h, t) ELSE <<h[2], t>>

(* ---- Init: the state after the first script run of a session ----------- *)
\* The first run cannot have the button pressed; it creates the session slot
\* (lines 84-85) and draws the widgets with their defaults.
Init ==
  /\ GEMINI_API_KEY \in EnvValues
  /\ configured = "<unconfigured>"
  /\ api_key = ""
  /\ tool_type = "ansible"
  /\ requirements = ""
  /\ generated_code = ""
  /\ notices = <<>>
  /\ display = Display("", "ansible")
  /\ calls = 0
  /\ prompt_sent = ""
  /\ last = [action |-> "load", path |-> "none", text |-> "", before |-> ""]
  /\ gen_tool = "none"
  /\ ok_hist = <<>>
  /\ rejected = {}

(* ---- script runs without the Generate button --------------------------- *)
\* Variant of Redraw in which the notices of the previous run stay on screen.
Redraw_keeps_notices(action) ==
  /\ notices' = notices
  /\ calls' = 0
  /\ prompt_sent' = ""
  /\ last' = Last(action, "none", "")
  /\ display' = Display(generated_code, tool_type')
  /\ UNCHANGED <<GEMINI_API_KEY, configured, generated_code, gen_tool, ok_hist,
                 rejected>>

\* A run whose button is False skips lines 108-123 and only redraws.
Redraw(action) ==
  /\ notices' = <<>>
  /\ calls' = 0
  /\ prompt_sent' = ""
  /\ last' = Last(action, "none", "")
  /\ display' = Display(generated_code, tool_type')
  /\ UNCHANGED <<GEMINI_API_KEY, configured, generated_code, gen_tool, ok_hist,
                 rejected>>

ChangeApiKey ==
  \E k \in ApiKeys :
    /\ k # api_key
    /\ api_key' = k
    /\ UNCHANGED <<tool_type, requirements>>
    /\ Redraw("api_key")

ChangeToolType ==
  \E t \in ToolTypes :
    /\ t # tool_type
    /\ tool_type' = t
    /\ UNCHANGED <<api_key, requirements>>
    /\ Redraw("tool_type")

ChangeRequirements ==
  \E r \in Requirements :
    /\ r # requirements
    /\ requirements' = r
    /\ UNCHANGED <<api_key, tool_type>>
    /\ Redraw("requirements")

\* st.download_button hands display.data to the browser and reruns the script
DownloadCode ==
  /\ display.shown
  /\ UNCHANGED <<api_key, tool_type, requirements>>
  /\ Redraw("download")

(* ---- script runs with the Generate button pressed (lines 107-123) ------ *)
\* line 108: the sidebar input is empty
GenerateNoKey ==
  /\ api_key = ""
  /\ notices' = <<KeyError>>
  /\ calls' = 0
  /\ prompt_sent' = ""
  /\ last' = Last("generate", "nokey", "")
  /\ rejected' = rejected \cup {"nokey"}
  /\ display' = Display(generated_code, tool_type)
  /\ UNCHANGED <<GEMINI_API_KEY, configured, api_key, tool_type, requirements,
                 generated_code, gen_tool, ok_hist>>

\* Variant of GenerateNoRequirements without the test of line 110: the run
\* goes on to the call with the empty requirements.
GenerateNoRequirements_calls ==
  \E t \in Texts :
    /\ api_key # ""
    /\ requirements = ""
    /\ configured' = initialize_gemini_api(api_key)
    /\ calls' = 1
    /\ prompt_sent' = PromptFor(tool_type, requirements)
    /\ generated_code' = t
    /\ notices' = <<Success>>
    /\ last' = Last("generate", "ok", t)
    /\ gen_tool' = tool_type
    /\ ok_hist' = Push(ok_hist, t)
    /\ display' = Display(generated_code', tool_type)
    /\ UNCHANGED <<GEMINI_API_KEY, api_key, tool_type, requirements, rejected>>

\* line 110: the sidebar input is set and the requirements are empty
GenerateNoRequirements ==
  /\ api_key # ""
  /\ requirements = ""
  /\ notices' = <<ReqWarning>>
  /\ calls' = 0
  /\ prompt_sent' = ""
  /\ last' = Last("generate", "noreq", "")
  /\ rejected' = rejected \cup {"noreq"}
  /\ display' = Display(generated_code, tool_type)
  /\ UNCHANGED <<GEMINI_API_KEY, configured, api_key, tool_type, requirements,
                 generated_code, gen_tool, ok_hist>>

\* Variant of GenerateOk that appends the reply to the stored result.
GenerateOk_appends ==
  \E t \in Texts :
    /\ api_key # ""
    /\ requirements # ""
    /\ configured' = initialize_gemini_api(api_key)
    /\ calls' = 1
    /\ prompt_sent' = PromptFor(tool_type, requirements)
    /\ generated_code' = generated_code \o t
    /\ notices' = <<Success>>
    /\ last' = Last("generate", "ok", t)
    /\ gen_tool' = tool_type
    /\ ok_hist' = Push(ok_hist, t)
    /\ display' = Display(generated_code', tool_type)
    /\ UNCHANGED <<GEMINI_API_KEY, api_key, tool_type, requirements, rejected>>

\* lines 113-121: both checks pass, generate_content returns and
\* response.text is t.  Whether the service accepts the configured key is
\* decided outside the program, so every outcome is possible for every
\* value of the environment variable.
GenerateOk ==
  \E t \in Texts :
    /\ api_key # ""
    /\ requirements # ""
    /\ configured' = initialize_gemini_api(api_key)
    /\ calls' = 1
    /\ prompt_sent' = PromptFor(tool_type, requirements)
    /\ generated_code' = t
    /\ notices' = <<Success>>
    /\ last' = Last("generate", "ok", t)
    /\ gen_tool' = tool_type
    /\ ok_hist' = Push(ok_hist, t)
    /\ display' = Display(generated_code', tool_type)
    /\ UNCHANGED <<GEMINI_API_KEY, api_key, tool_type, requirements, rejected>>

\* Variant of GenerateFail whose handler resets the session slot.
GenerateFail_clears ==
  \E e \in Errors :
    /\ api_key # ""
    /\ requirements # ""
    /\ configured' = initialize_gemini_api(api_key)
    /\ calls' = 1
    /\ prompt_sent' = PromptFor(tool_type, requirements)
    /\ generated_code' = ""
    /\ notices' = <<CallError(e)>>
    /\ last' = Last("generate", "fail", e)
    /\ rejected' = rejected \cup {"fail"}
    /\ display' = Display(generated_code', tool_type)
    /\ UNCHANGED <<GEMINI_API_KEY, api_key, tool_type, requirements,
                   gen_tool, ok_hist>>

\* Variant of GenerateFail that repeats the call once after the exception.
GenerateFail_retries ==
  \E e \in Errors :
    /\ api_key # ""
    /\ requirements # ""
    /\ configured' = initialize_gemini_api(api_key)
    /\ calls' = 2
    /\ prompt_sent' = PromptFor(tool_type, requirements)
    /\ notices' = <<CallError(e)>>
    /\ last' = Last("generate", "fail", e)
    /\ rejected' = rejected \cup {"fail"}
    /\ display' = Display(generated_code, tool_type)
    /\ UNCHANGED <<GEMINI_API_KEY, api_key, tool_type, requirements,
                   generated_code, gen_tool, ok_hist>>

\* lines 113-123: both checks pass, generate_content (or response.text)
\* raises an exception whose message is e; the assignment of line 119 is
\* not executed and the handler of line 122 draws the error.
GenerateFail ==
  \E e \in Errors :
    /\ api_key # ""
    /\ requirements # ""
    /\ configured' = initialize_gemini_api(api_key)
    /\ calls' = 1
    /\ prompt_sent' = PromptFor(tool_type, requirements)
    /\ notices' = <<CallError(e)>>
    /\ last' = Last("generate", "fail", e)
    /\ rejected' = rejected \cup {"fail"}
    /\ display' = Display(generated_code, tool_type)
    /\ UNCHANGED <<GEMINI_API_KEY, api_key, tool_type, requirements,
                   generated_code, gen_tool, ok_hist>>

Next ==
  \/ ChangeApiKey
  \/ ChangeToolType
  \/ ChangeRequirements
  \/ DownloadCode
  \/ GenerateNoKey
  \/ GenerateNoRequirements
  \/ GenerateOk
  \/ GenerateFail

Spec == Init /\ [][Next]_vars

(* ---- type invariant ---------------------------------------------------- *)
TypeOK ==
  /\ GEMINI_API_KEY \in EnvValues
  /\ configured \in EnvValues \cup {"<unconfigured>"}
  /\ api_key \in ApiKeys
  /\ tool_type \in ToolTypes
  /\ requirements \in Requirements
  /\ generated_code \in Texts
  /\ Len(notices) <= 1
  /\ calls \in 0..1
  /\ gen_tool \in ToolTypes \cup {"none"}
  /\ Len(ok_hist) <= 2
  /\ rejected \subseteq {"nokey", "noreq", "fail"}

(* ======================================================================= *)
(* Properties                                                              *)
(* ======================================================================= *)

\* What the result block shows: the stored text, or nothing at all.
DisplayedText == IF display.shown THEN display.markdown ELSE ""

IsGenerate == last.action = "generate"

\* C1: a Generate run whose external call fails leaves the stored result
\* exactly as it was before the run (so the result block still shows the
\* old result, if there was one) and draws the error notice carrying the
\* exception message.
Thm_C1_FailureKeepsResult ==
  last.path = "fail" =>
    /\ generated_code = last.before
    /\ DisplayedText = last.before
    /\ notices = <<CallError(last.text)>>

Wit_C1_FailureWithStoredResult ==
  /\ last.path = "fail"
  /\ last.before # ""
  /\ display.shown
  /\ display.data = last.before
  /\ notices[1].kind = "error"

\* C2: the stored result is the output of the most recent successful call,
\* never a concatenation or an older value, whatever runs that did not
\* succeed came in between; what is displayed and offered for download is
\* that same text (an empty reply leaves the result block empty).
Thm_C2_OverwriteSemantics ==
  Len(ok_hist) > 0 =>
    /\ generated_code = ok_hist[Len(ok_hist)]
    /\ DisplayedText = ok_hist[Len(ok_hist)]
    /\ display.shown => display.data = ok_hist[Len(ok_hist)]

Wit_C2_SecondSuccessThenFailure ==
  /\ Len(ok_hist) = 2
  /\ ok_hist[1] # ""
  /\ ok_hist[2] # ""
  /\ ok_hist[1] # ok_hist[2]
  /\ last.path = "fail"
  /\ display.shown
  /\ display.data = ok_hist[2]

\* C3 (as stated): a Generate run with empty requirements makes no external
\* call and draws the requirements warning, for every sidebar key input.
Cex_C3_WarningForEveryKey ==
  (IsGenerate /\ requirements = "") =>
    /\ calls = 0
    /\ notices = <<ReqWarning>>

\* C3 (amended): a Generate run with empty requirements makes no external
\* call and leaves the stored result alone; it draws the requirements
\* warning when the sidebar key input is non-empty and the missing-key
\* error when the sidebar key input is empty.
Thm_C3_EmptyRequirementsRejected ==
  (IsGenerate /\ requirements = "") =>
    /\ calls = 0
    /\ generated_code = last.before
    /\ api_key # "" => notices = <<ReqWarning>>
    /\ api_key = "" => notices = <<KeyError>>

Wit_C3_WarningShown ==
  /\ IsGenerate
  /\ requirements = ""
  /\ api_key # ""
  /\ calls = 0
  /\ notices = <<ReqWarning>>

\* C4: when the credential environment variable is absent, a Generate run
\* ends with an error notice and makes no external call, whatever the
\* sidebar key input and the requirements are.
Cex_C4_NoCredentialNoCall ==
  (IsGenerate /\ GEMINI_API_KEY = None) =>
    /\ calls = 0
    /\ Len(notices) = 1
    /\ notices[1].kind = "error"

\* C5: a successful call returning T for category c results in a download
\* named c_generated.ext (ext = yml, Dockerfile, tf) whose content is T.
Cex_C5_ArtifactForEverySuccess ==
  last.path = "ok" =>
    /\ display.shown
    /\ display.data = last.text
    /\ display.file_name =
         CASE tool_type = "ansible"   -> "ansible_generated.yml"
           [] tool_type = "docker"    -> "docker_generated.Dockerfile"
           [] tool_type = "terraform" -> "terraform_generated.tf"

\* C6: every successful generation, whatever text is returned, leaves the
\* session in Has Result (result displayed, download offered), and no run
\* takes a session that had a result back to No Result.
Cex_C6_TwoStateModel ==
  /\ last.path = "ok" => display.shown
  /\ last.before # "" => (generated_code # "" /\ display.shown)

\* C7: a run makes at most one generate_content call; a Generate run makes
\* exactly one when the key and requirements checks pass, and none when one
\* of them rejects; a failed call is not repeated; a run without the
\* Generate button makes no call and leaves the stored result unchanged.
Thm_C7_OneCallPerGenerate ==
  /\ calls <= 1
  /\ (IsGenerate /\ api_key # "" /\ requirements # "") => calls = 1
  /\ (IsGenerate /\ (api_key = "" \/ requirements = "")) => calls = 0
  /\ last.path = "fail" => calls = 1
  /\ ~IsGenerate => (calls = 0 /\ generated_code = last.before)

Wit_C7_FailedCallOnce ==
  /\ last.path = "fail"
  /\ calls = 1
  /\ "nokey" \in rejected

Wit_C7_NoCallOnWidgetChange ==
  /\ last.action = "tool_type"
  /\ calls = 0
  /\ generated_code # ""

\* C8: the prompt handed to the service is the template of the selected
\* category, and of no other category, with the requirements text of the
\* text area embedded; it depends on these two inputs only, and building it
\* stores nothing (a run that builds the prompt and then fails leaves the
\* stored result and the widget values as they were).
Thm_C8_PromptIsSelectedTemplate ==
  /\ calls = 0 => prompt_sent = ""
  /\ calls > 0 =>
       /\ tool_type = "ansible"   => prompt_sent = ansible_prompt(requirements)
       /\ tool_type = "docker"    => prompt_sent = docker_prompt(requirements)
       /\ tool_type = "terraform" => prompt_sent = terraform_prompt(requirements)
       /\ tool_type # "ansible"   => prompt_sent # ansible_prompt(requirements)
       /\ tool_type # "docker"    => prompt_sent # docker_prompt(requirements)
       /\ tool_type # "terraform" => prompt_sent # terraform_prompt(requirements)
  /\ last.path = "fail" => generated_code = last.before

Wit_C8_DockerPromptSent ==
  /\ calls = 1
  /\ tool_type = "docker"
  /\ requirements = "req2"
  /\ prompt_sent = docker_prompt("req2")
  /\ last.path = "fail"

\* C9: errors are local to the run that raised them: a Generate run that
\* passes both checks and whose call succeeds stores its reply, shows it
\* and draws the success notice and nothing else, whatever rejected or
\* failed Generate runs came before; every run draws only its own notice,
\* so a run without the button shows no notice at all.
Thm_C9_ErrorsAreLocal ==
  /\ last.path = "ok" =>
       /\ generated_code = last.text
       /\ display = Display(last.text, tool_type)
       /\ notices = <<Success>>
  /\ last.path = "none" => notices = <<>>
  /\ last.path = "nokey" => notices = <<KeyError>>
  /\ last.path = "noreq" => notices = <<ReqWarning>>
  /\ last.path = "fail" => notices = <<CallError(last.text)>>

Wit_C9_SuccessAfterErrors ==
  /\ rejected = {"nokey", "noreq", "fail"}
  /\ last.path = "ok"
  /\ last.text # ""
  /\ generated_code = last.text
  /\ display.shown
  /\ notices = <<Success>>

\* C10: whenever a download is offered, its file name, its extension and
\* the usage hint are those of the category the stored result was
\* generated for.
Cex_C10_ArtifactNamedAfterGeneration ==
  display.shown =>
    /\ gen_tool \in ToolTypes
    /\ display.file_name = file_name(gen_tool)
    /\ display.info = info(gen_tool)

====
